---- MODULE Spec2Model ----
(***************************************************************************)
(* Model of modules/machinery/vsphere.py: the vSphere machinery class.     *)
(* One process is one caller thread running start / stop / dump_memory /   *)
(* _status / _list against the vSphere host.  The host owns the inventory, *)
(* the snapshot trees, the power states, the file layout and the tasks.    *)
(***************************************************************************)
EXTENDS Integers, Sequences, FiniteSets, TLC

(***************************************************************************)
(* Bounds of the model.                                                    *)
(***************************************************************************)
\* operations one caller runs one after the other
MaxOps == 2
\* largest configured cfg.timeouts.vm_state, in seconds
MaxTimeout == 2
\* extra whole seconds one time.sleep(1) may take beyond the second asked for
MaxJitter == 1
\* most full chunks in one HTTP response body
MaxChunks == 1
\* most nodes of a snapshot forest drawn for the lookup specification
MaxNodes == 3
\* most files of a layout drawn for the resolution specification
MaxFiles == 3
\* operations each of two concurrent callers runs
MaxConcOps == 1
\* most nodes of an inventory drawn for the traversal specification
MaxEntities == 4

(***************************************************************************)
(* Program constants.                                                      *)
(***************************************************************************)
RUNNING == "poweredOn"
POWEROFF == "poweredOff"
\* time.sleep(1): the poll interval in seconds
Interval == 1
\* response.iter_content(16*1024)
ChunkSize == 16384
\* next(gen, None), and the value of an unset local
None == 0

Procs == {1, 2}

Min(S) == CHOOSE x \in S : \A y \in S : x <= y

(***************************************************************************)
(* Snapshot trees: vm.snapshot.rootSnapshotList is a sequence of nodes     *)
(* [name, snapshot, state, childSnapshotList]; snapshot is the managed     *)
(* object reference (a positive number), unique in the tree.               *)
(***************************************************************************)
Node(n, id, st, kids) ==
    [name |-> n, snapshot |-> id, state |-> st, childSnapshotList |-> kids]

RECURSIVE TraverseSnapshotsPre(_)
\* a traversal that emits a node before its children
TraverseSnapshotsPre(root) ==
    IF root = <<>> THEN <<>>
    ELSE LET node == Head(root)
         IN  <<node>>
             \o (IF Len(node.childSnapshotList) > 0
                 THEN TraverseSnapshotsPre(node.childSnapshotList)
                 ELSE <<>>)
             \o TraverseSnapshotsPre(Tail(root))

RECURSIVE TraverseSnapshots(_)
\* _traverseSnapshots: for node in root: the children's emission, then node
TraverseSnapshots(root) ==
    IF root = <<>> THEN <<>>
    ELSE LET node == Head(root)
         IN  (IF Len(node.childSnapshotList) > 0
              THEN TraverseSnapshots(node.childSnapshotList)
              ELSE <<>>)
             \o <<node>>
             \o TraverseSnapshots(Tail(root))

\* next(gen, None) over the nodes of flat whose name is name
FirstNamed(flat, name) ==
    LET idx == {i \in DOMAIN flat : flat[i].name = name}
    IN  IF idx = {} THEN None ELSE Min(idx)

\* _get_snapshot_by_name: the snapshot reference of the first match, or None
GetSnapshotByName(root, name) ==
    LET flat == TraverseSnapshots(root)
        i == FirstNamed(flat, name)
    IN  IF i = None THEN None ELSE flat[i].snapshot

\* _get_snapshot_power_state: the state of the first match, or None
GetSnapshotPowerState(root, name) ==
    LET flat == TraverseSnapshots(root)
        i == FirstNamed(flat, name)
    IN  IF i = None THEN None ELSE flat[i].state

\* the snapshot references of a forest
SnapIds(root) == {TraverseSnapshots(root)[i].snapshot : i \in DOMAIN TraverseSnapshots(root)}

\* the names carried by the nodes of a forest
SnapNames(root) == {TraverseSnapshots(root)[i].name : i \in DOMAIN TraverseSnapshots(root)}

\* the state recorded in the node with reference id
SnapState(root, id) ==
    LET flat == TraverseSnapshots(root)
    IN  flat[CHOOSE i \in DOMAIN flat : flat[i].snapshot = id].state

RECURSIVE AddChild(_, _, _)
\* the host's effect of CreateSnapshot_Task: node becomes the last child of parent
AddChild(root, parent, node) ==
    IF root = <<>> THEN <<>>
    ELSE LET h == Head(root)
         IN  <<[h EXCEPT !.childSnapshotList =
                    IF h.snapshot = parent
                    THEN Append(h.childSnapshotList, node)
                    ELSE AddChild(h.childSnapshotList, parent, node)]>>
             \o AddChild(Tail(root), parent, node)

RECURSIVE RemoveSubtree(_, _)
\* the host's effect of RemoveSnapshot_Task(removeChildren=True)
RemoveSubtree(root, id) ==
    IF root = <<>> THEN <<>>
    ELSE LET h == Head(root)
         IN  (IF h.snapshot = id THEN <<>>
              ELSE <<[h EXCEPT !.childSnapshotList =
                         RemoveSubtree(h.childSnapshotList, id)]>>)
             \o RemoveSubtree(Tail(root), id)

RECURSIVE ParentOf(_, _, _)
\* the reference of the parent of node id (up when id is a root of root)
ParentOf(root, id, up) ==
    IF root = <<>> THEN -1
    ELSE LET h == Head(root)
             below == ParentOf(h.childSnapshotList, id, h.snapshot)
         IN  IF h.snapshot = id THEN up
             ELSE IF below # -1 THEN below
             ELSE ParentOf(Tail(root), id, up)

(***************************************************************************)
(* Inventory: conn.content.rootFolder.childEntity is a sequence of nodes.  *)
(* A node with hasChild (hasattr(node, "childEntity")) is a folder; above  *)
(* the split any other node is a datacenter with its vmFolder, below it a  *)
(* virtual machine with its managed object reference moid.                 *)
(***************************************************************************)
Folder(n, kids) ==
    [name |-> n, hasChild |-> TRUE, childEntity |-> kids, vmFolder |-> <<>>, moid |-> 0]
Datacenter(n, vms) ==
    [name |-> n, hasChild |-> FALSE, childEntity |-> <<>>, vmFolder |-> vms, moid |-> 0]
Machine(n, id) ==
    [name |-> n, hasChild |-> FALSE, childEntity |-> <<>>, vmFolder |-> <<>>, moid |-> id]

RECURSIVE traverseDCFoldersKeepsPath(_, _)
\* a traversal whose path keeps the names of the folders it has left
traverseDCFoldersKeepsPath(nodes, path) ==
    IF nodes = <<>> THEN <<>>
    ELSE LET node == Head(nodes)
         IN  (IF node.hasChild
              THEN traverseDCFoldersKeepsPath(node.childEntity, path \o node.name \o "/")
              ELSE <<[dc |-> node, dcpath |-> path \o node.name]>>)
             \o traverseDCFoldersKeepsPath(Tail(nodes),
                    IF node.hasChild THEN path \o node.name \o "/" ELSE path)

RECURSIVE traverseDCFolders(_, _)
\* traverseDCFolders: (datacenter, accumulated path) pairs, depth first
traverseDCFolders(nodes, path) ==
    IF nodes = <<>> THEN <<>>
    ELSE LET node == Head(nodes)
         IN  (IF node.hasChild
              THEN traverseDCFolders(node.childEntity, path \o node.name \o "/")
              ELSE <<[dc |-> node, dcpath |-> path \o node.name]>>)
             \o traverseDCFolders(Tail(nodes), path)

RECURSIVE traverseVMFolders(_)
\* traverseVMFolders: the leaves below a datacenter's vmFolder, depth first
traverseVMFolders(nodes) ==
    IF nodes = <<>> THEN <<>>
    ELSE LET node == Head(nodes)
         IN  (IF node.hasChild
              THEN traverseVMFolders(node.childEntity)
              ELSE <<node>>)
             \o traverseVMFolders(Tail(nodes))

RECURSIVE YieldMachines(_)
\* the outer loops of _get_virtual_machines over the (dc, dcpath) pairs
YieldMachines(dcs) ==
    IF dcs = <<>> THEN <<>>
    ELSE LET vms == traverseVMFolders(Head(dcs).dc.vmFolder)
         IN  [i \in 1..Len(vms) |-> [vm |-> vms[i], dcpath |-> Head(dcs).dcpath]]
             \o YieldMachines(Tail(dcs))

\* _get_virtual_machines: what the generator yields, in order, with the
\* path it stores in VMtoDC just before each yield
GetVirtualMachines(rootChildEntity) ==
    YieldMachines(traverseDCFolders(rootChildEntity, ""))

\* the inventory of the host the operations run against; the second
\* datacenter holds a machine that carries the name of one in the first
RootFolder ==
    << Datacenter("dc1", << Machine("vm1", 1) >>),
       Folder("grp", << Datacenter("dc2",
                           << Folder("lab", << Machine("vm2", 2) >>),
                              Machine("vm1", 3) >>) >>) >>

\* the managed object references of the machines of the host
VMs == {GetVirtualMachines(RootFolder)[i].vm.moid :
            i \in DOMAIN GetVirtualMachines(RootFolder)}

\* vm.summary.config.name of the machine with reference id
LabelOf(id) ==
    LET all == GetVirtualMachines(RootFolder)
    IN  all[CHOOSE i \in DOMAIN all : all[i].vm.moid = id].vm.name

\* self.db.view_machine_by_label(label).snapshot: the registry of baselines
BaselineOf(label) == "base"

(***************************************************************************)
(* File specifiers are sequences of characters.                            *)
(***************************************************************************)
\* where c first occurs in s at or after from, or Len(s) + 1
IndexFrom(s, c, from) ==
    LET hits == {i \in from..Len(s) : s[i] = c}
    IN  IF hits = {} THEN Len(s) + 1 ELSE Min(hits)

\* re.match(r"\[([^\]]*)\] (.*)", filespec): <<>> when there is no match,
\* else .groups(), the pair <<datastore, filepath>>
ReMatch(filespec) ==
    IF Len(filespec) = 0 \/ filespec[1] # "[" THEN <<>>
    ELSE LET close == IndexFrom(filespec, "]", 2)
             stop == IndexFrom(filespec, "\n", close + 2)
         IN  IF close > Len(filespec) THEN <<>>
             ELSE IF close + 1 > Len(filespec) \/ filespec[close + 1] # " " THEN <<>>
             ELSE <<SubSeq(filespec, 2, close - 1),
                    SubSeq(filespec, close + 2, stop - 1)>>

(***************************************************************************)
(* vm.layoutEx: snapshot is a sequence of [key, memoryKey, dataKey], file  *)
(* a sequence of [key, type, name].                                        *)
(***************************************************************************)
\* the first element of list satisfying Test, or None
FirstWhere(list, Test(_)) ==
    LET hits == {i \in DOMAIN list : Test(list[i])}
    IN  IF hits = {} THEN None ELSE Min(hits)

\* lines 295-300: the keys of the layout entry of snapshot (None when absent)
LayoutKeys(layout, snapshot) ==
    LET IsIt(s) == s.key = snapshot
        i == FirstWhere(layout.snapshot, IsIt)
    IN  IF i = None THEN [memorykey |-> None, datakey |-> None]
        ELSE [memorykey |-> layout.snapshot[i].memoryKey,
              datakey |-> layout.snapshot[i].dataKey]

\* a resolution that looks for the data file first
ResolveFilespecDataFirst(layout, snapshot) ==
    LET keys == LayoutKeys(layout, snapshot)
        IsMem(f) == f.key = keys.memorykey
                    /\ (f.type = "snapshotMemory" \/ f.type = "suspendMemory")
        IsData(f) == f.key = keys.datakey /\ f.type = "snapshotData"
        m == FirstWhere(layout.file, IsMem)
        d == FirstWhere(layout.file, IsData)
        first == IF d # None THEN layout.file[d].name ELSE <<>>
    IN  IF first # <<>> THEN first
        ELSE IF m # None THEN layout.file[m].name
        ELSE <<>>

\* lines 302-312: the name of the memory file; if that left filespec unset
\* (None, here <<>>), the name of the data file; else still unset
ResolveFilespec(layout, snapshot) ==
    LET keys == LayoutKeys(layout, snapshot)
        IsMem(f) == f.key = keys.memorykey
                    /\ (f.type = "snapshotMemory" \/ f.type = "suspendMemory")
        IsData(f) == f.key = keys.datakey /\ f.type = "snapshotData"
        m == FirstWhere(layout.file, IsMem)
        d == FirstWhere(layout.file, IsData)
        first == IF m # None THEN layout.file[m].name ELSE <<>>
    IN  IF first # <<>> THEN first
        ELSE IF d # None THEN layout.file[d].name
        ELSE <<>>

(***************************************************************************)
(* State.                                                                  *)
(***************************************************************************)
VARIABLES
    rootSnapshotList,   \* host: vm.snapshot.rootSnapshotList of each machine
    currentSnapshot,    \* host: the snapshot each machine currently sits on
    powerState,         \* host: vm.runtime.powerState of each machine
    layoutEx,           \* host: vm.layoutEx of each machine
    tasks,              \* host: every task requested so far, by task number
    VMtoDC,             \* self.VMtoDC, shared by the callers of one instance
    vm_state,           \* cfg.timeouts.vm_state
    call,               \* per caller: the locals of the running operation
    probe               \* the arguments and the result of one direct call of a helper

hostVars == <<rootSnapshotList, currentSnapshot, powerState, layoutEx, tasks>>
vars == <<rootSnapshotList, currentSnapshot, powerState, layoutEx, tasks,
          VMtoDC, vm_state, call, probe>>

Ops == {"start", "stop", "dump_memory", "_status", "_list"}
Labels == {"vm1", "ghost"}
\* "cuckoo_memdump_{0}".format(random.randint(100000, 999999))
TransientNames == <<"cuckoo_memdump_999999", "cuckoo_memdump_100000">>

\* file specifiers the host reports
MemFile == <<"[", "d", "s", "]", " ", "m">>
DataFile == <<"[", "d", "s", "]", " ", "d">>
BadFile == <<"d", "s", "/", "m">>

\* the layout entries of one snapshot, by how the host stores its memory
LayoutOf(id, how) ==
    CASE how = "mem" ->
           [snapshot |-> <<[key |-> id, memoryKey |-> 2 * id + 1, dataKey |-> 2 * id]>>,
            file |-> <<[key |-> 2 * id, type |-> "snapshotData", name |-> DataFile],
                       [key |-> 2 * id + 1, type |-> "snapshotMemory", name |-> MemFile]>>]
      [] how = "data" ->
           [snapshot |-> <<[key |-> id, memoryKey |-> -1, dataKey |-> 2 * id]>>,
            file |-> <<[key |-> 2 * id, type |-> "snapshotData", name |-> DataFile]>>]
      [] how = "bad" ->
           [snapshot |-> <<[key |-> id, memoryKey |-> 2 * id + 1, dataKey |-> 2 * id]>>,
            file |-> <<[key |-> 2 * id + 1, type |-> "snapshotMemory", name |-> BadFile]>>]
      [] OTHER -> [snapshot |-> <<>>, file |-> <<>>]
LayoutKinds == {"mem", "data", "bad", "none"}

\* the layout without the entries of the snapshots in gone
DropLayout(layout, gone) ==
    LET KeepS(e) == e.key \notin gone
        KeepF(f) == \A id \in gone : f.key # 2 * id /\ f.key # 2 * id + 1
    IN  [snapshot |-> SelectSeq(layout.snapshot, KeepS),
         file |-> SelectSeq(layout.file, KeepF)]

\* the response bodies the HTTP endpoint may send, in bytes
BodySizes == {c * ChunkSize + r : c \in 0..MaxChunks, r \in {0, 1}}

\* response.iter_content(16*1024): the chunk sizes of a body of n bytes
RECURSIVE IterContent(_)
IterContent(n) ==
    IF n <= 0 THEN <<>>
    ELSE IF n <= ChunkSize THEN <<n>>
    ELSE <<ChunkSize>> \o IterContent(n - ChunkSize)

RECURSIVE SumTo(_, _)
\* the bytes in the first k chunks
SumTo(chunks, k) == IF k = 0 THEN 0 ELSE chunks[k] + SumTo(chunks, k - 1)

\* what may happen around a caller: the connection attempt may fail, a sleep
\* may take up to jitter seconds longer, the endpoint answers with one of
\* bodies, the host keeps the memory of a new snapshot in one of layouts
AnyEnv == [connectFails |-> TRUE, jitter |-> MaxJitter, bodies |-> BodySizes,
           layouts |-> LayoutKinds]

\* a host in good health: sessions open, sleeps are exact, bodies are empty,
\* memory goes to a snapshotMemory file
CalmEnv == [connectFails |-> FALSE, jitter |-> 0, bodies |-> {0},
            layouts |-> {"mem"}]

\* the locals of a caller that runs no operation and may still run k
Idle(k) ==
    [pc |-> "idle", op |-> "none", label |-> "", name |-> "", conn |-> "none",
     opened |-> 0, vm |-> None, it |-> 0, vmlist |-> <<>>, status |-> "",
     snapshot |-> None, task |-> None, ctx |-> "", elapsed |-> 0,
     r1 |-> "", r2 |-> "", seen |-> {}, polls |-> 0, sleeps |-> 0, base |-> 0,
     steps |-> [lookup |-> "", create |-> "", download |-> "", delete |-> "",
                revert |-> "", poweroff |-> ""],
     filespec |-> <<>>, dcPath |-> "", body |-> -1,
     outcome |-> "none", log |-> <<>>, issued |-> <<>>, stale |-> FALSE,
     opsLeft |-> k, file |-> -1, ops |-> Ops, labels |-> Labels, env |-> AnyEnv]

\* a caller that is only ever asked for the operations ops on the labels
\* labels, in the surroundings env
Workload(k, ops, labels, env) ==
    [Idle(k) EXCEPT !.ops = ops, !.labels = labels, !.env = env]

InitForests ==
    { <<>>,
      <<Node("base", 1, RUNNING, <<>>)>> }

LastId(root) == IF root = <<>> THEN None ELSE root[Len(root)].snapshot

InitHost ==
    /\ \E f \in InitForests :
          /\ rootSnapshotList = [v \in VMs |-> IF v = 1 THEN f
                                      ELSE <<Node("base", 2, RUNNING, <<>>)>>]
          /\ currentSnapshot = [v \in VMs |-> IF v = 1 THEN LastId(f) ELSE 2]
          /\ layoutEx = [v \in VMs |->
                           IF v = 1 /\ f = <<>> THEN LayoutOf(v, "none")
                           ELSE LayoutOf(v, "mem")]
    /\ powerState = [v \in VMs |-> RUNNING]
    /\ tasks = <<>>

Init ==
    /\ InitHost
    /\ VMtoDC = {}
    /\ vm_state \in {0, MaxTimeout}
    /\ call = [p \in Procs |-> Idle(IF p = 1 THEN MaxOps ELSE 0)]
    /\ probe = <<>>

(***************************************************************************)
(* Helpers of the operations.                                              *)
(***************************************************************************)
\* self.VMtoDC[key] = value, the dictionary being a set of <<key, value>>
DictPut(d, key, value) == {e \in d : e[1] # key} \cup {<<key, value>>}

\* self.VMtoDC.get(key, default)
DictGet(d, key, default) ==
    IF \E e \in d : e[1] = key
    THEN (CHOOSE e \in d : e[1] = key)[2]
    ELSE default

\* an exception leaves the body of the with statement
Raise(r, what) == [r EXCEPT !.pc = "with_exit", !.outcome = what]

\* the body of the with statement runs to its end
Finish(r) == [r EXCEPT !.pc = "with_exit", !.outcome = "ok"]

\* a managed object of the session is used: stale once the session is closed
Touch(r) == [r EXCEPT !.stale = r.stale \/ r.conn # "open"]

\* the class of the exception an operation ends with
ExcClass(outcome) ==
    CASE outcome \in {"none", "ok"} -> "none"
      [] outcome = "AttributeError" -> "AttributeError"
      [] outcome = "connect failed" -> "ConnectError"
      [] OTHER -> "CuckooMachineError"

\* a task request: the host registers the task, the caller enters _wait_task
Request(r, kind) ==
    [r EXCEPT !.pc = "w_err", !.task = Len(tasks) + 1, !.ctx = kind,
              !.elapsed = 0, !.polls = 0, !.sleeps = 0, !.r1 = "", !.r2 = "",
              !.seen = {},
              !.issued = Append(r.issued, kind)]

\* the task the host registers for a request of caller p
NewTask(r, p, kind, snap) ==
    [kind |-> kind, vm |-> r.vm, snapshot |-> snap, name |-> r.name,
     state |-> "running", by |-> p]

\* an except clause around _wait_task that re-raises for the removal too
HandlerDeleteRaises(r, what) ==
    CASE r.ctx = "create" -> Raise(r, "CreateSnapshot: " \o what)
      [] r.ctx = "revert" -> Raise(r, "RevertToSnapshot: " \o what)
      [] r.ctx = "delete" -> Raise(r, "RemoveSnapshot: " \o what)
      [] OTHER ->
           Finish([r EXCEPT !.log = Append(r.log, "PowerOffVM: " \o what)])

\* an except clause around _wait_task that re-raises for the power-off too
HandlerPowerOffRaises(r, what) ==
    CASE r.ctx = "create" -> Raise(r, "CreateSnapshot: " \o what)
      [] r.ctx = "revert" -> Raise(r, "RevertToSnapshot: " \o what)
      [] r.ctx = "delete" ->
           Finish([r EXCEPT !.log = Append(r.log, "RemoveSnapshot: " \o what)])
      [] OTHER -> Raise(r, "PowerOffVM: " \o what)

\* an except clause around _wait_task that only logs a failed create
HandlerCreateLogs(r, what) ==
    CASE r.ctx = "create" ->
           [r EXCEPT !.log = Append(r.log, "CreateSnapshot: " \o what),
                     !.pc = "dl_lookup"]
      [] r.ctx = "revert" -> Raise(r, "RevertToSnapshot: " \o what)
      [] r.ctx = "delete" ->
           Finish([r EXCEPT !.log = Append(r.log, "RemoveSnapshot: " \o what)])
      [] OTHER ->
           Finish([r EXCEPT !.log = Append(r.log, "PowerOffVM: " \o what)])

\* lines 251-254, 263-266, 278-281, 350-353: the except clause around _wait_task
Handler(r, what) ==
    CASE r.ctx = "create" -> Raise(r, "CreateSnapshot: " \o what)
      [] r.ctx = "revert" -> Raise(r, "RevertToSnapshot: " \o what)
      [] r.ctx = "delete" ->
           Finish([r EXCEPT !.log = Append(r.log, "RemoveSnapshot: " \o what)])
      [] OTHER ->
           Finish([r EXCEPT !.log = Append(r.log, "PowerOffVM: " \o what)])

\* _wait_task returned or raised: what ("success", "Task error", "Task timed out")
AfterWait(r, what) ==
    LET q == [r EXCEPT !.steps[r.ctx] = what]
    IN  IF what # "success" THEN Handler(q, what)
        ELSE IF r.ctx = "create" THEN [q EXCEPT !.pc = "dl_lookup"]
        ELSE Finish(q)

(***************************************************************************)
(* The operations, one caller p at a time.                                 *)
(***************************************************************************)
\* the names the host knows: in a snapshot tree or in a task not yet forgotten
KnownNames ==
    UNION {SnapNames(rootSnapshotList[v]) : v \in VMs}
        \cup {tasks[t].name : t \in DOMAIN tasks}

\* what random.randint may draw, up to renaming: any name the host knows and
\* the first of those it does not know
DrawNames ==
    {TransientNames[i] : i \in
        {i \in DOMAIN TransientNames :
            \/ TransientNames[i] \in KnownNames
            \/ \A j \in 1..(i - 1) : TransientNames[j] \in KnownNames}}

\* the orchestrator calls start / stop / dump_memory / _status / _list
Begin(p) ==
    LET r == call[p] IN
    /\ r.pc = "idle"
    /\ r.opsLeft > 0
    /\ \E o \in r.ops, l \in r.labels, t \in DrawNames :
          call' = [call EXCEPT ![p] =
                     [Workload(r.opsLeft - 1, r.ops, r.labels, r.env) EXCEPT
                        !.pc = "connect", !.op = o, !.base = Len(tasks),
                        !.label = IF o = "_list" THEN "" ELSE l,
                        !.name = CASE o = "start" -> BaselineOf(l)
                                   [] o = "dump_memory" -> t
                                   [] OTHER -> ""]]
    /\ UNCHANGED <<hostVars, VMtoDC, vm_state, probe>>

\* with SmartConnection(**self.connect_opts) as conn: the session opens or
\* the connection attempt raises
Connect(p) ==
    LET r == call[p] IN
    /\ r.pc = "connect"
    /\ \/ call' = [call EXCEPT ![p] =
                     [r EXCEPT !.pc = "traverse", !.conn = "open",
                               !.opened = r.opened + 1]]
       \/ /\ r.env.connectFails
          /\ call' = [call EXCEPT ![p] =
                        [r EXCEPT !.pc = "done", !.outcome = "connect failed"]]
    /\ UNCHANGED <<hostVars, VMtoDC, vm_state, probe>>

\* the exit of the with statement: the session is released, then the
\* operation returns or the exception goes on to the caller
WithExitKeepsOnError(p) ==
    LET r == call[p] IN
    /\ r.pc = "with_exit"
    /\ call' = [call EXCEPT ![p] =
                  [r EXCEPT !.pc = "done",
                            !.conn = IF r.outcome = "ok" THEN "closed" ELSE r.conn]]
    /\ UNCHANGED <<hostVars, VMtoDC, vm_state, probe>>

WithExit(p) ==
    LET r == call[p] IN
    /\ r.pc = "with_exit"
    /\ call' = [call EXCEPT ![p] = [r EXCEPT !.pc = "done", !.conn = "closed"]]
    /\ UNCHANGED <<hostVars, VMtoDC, vm_state, probe>>

\* the tasks that ended are of no use to anyone once their caller returned
Forget(ts, p) ==
    [t \in DOMAIN ts |->
        IF ts[t].by = p /\ ts[t].state # "running"
        THEN [kind |-> "", vm |-> None, snapshot |-> None, name |-> "",
              state |-> "over", by |-> p]
        ELSE ts[t]]

\* the operation is over and the caller is free for its next one; the
\* destination path of a dump is the caller's own and new for every call
Return(p) ==
    LET r == call[p] IN
    /\ r.pc = "done"
    /\ call' = [call EXCEPT ![p] = Workload(r.opsLeft, r.ops, r.labels, r.env)]
    /\ tasks' = Forget(tasks, p)
    /\ UNCHANGED <<rootSnapshotList, currentSnapshot, powerState, layoutEx,
                   VMtoDC, vm_state, probe>>

\* the first step of the operation once its machine is resolved
Dispatch(op) ==
    CASE op = "start" -> "revert"
      [] op = "stop" -> "poweroff"
      [] op = "dump_memory" -> "create"
      [] OTHER -> "status"

\* _get_virtual_machines, first next(): self.VMtoDC = {}
TraverseBegin(p) ==
    LET r == call[p] IN
    /\ r.pc = "traverse"
    /\ VMtoDC' = {}
    /\ call' = [call EXCEPT ![p] = [Touch(r) EXCEPT !.pc = "traverse_next", !.it = 0]]
    /\ UNCHANGED <<hostVars, vm_state, probe>>

\* a lookup that runs the traversal to its end and keeps the last match
TraverseNextKeepsLast(p) ==
    LET r == call[p]
        all == GetVirtualMachines(RootFolder)
    IN
    /\ r.pc = "traverse_next"
    /\ IF r.it < Len(all)
       THEN LET e == all[r.it + 1] IN
            /\ VMtoDC' = DictPut(VMtoDC, e.vm.name, e.dcpath)
            /\ call' = [call EXCEPT ![p] =
                  IF r.op = "_list"
                  THEN [Touch(r) EXCEPT !.it = r.it + 1,
                                        !.vmlist = Append(r.vmlist, e.vm.name)]
                  ELSE IF e.vm.name = r.label
                  THEN [Touch(r) EXCEPT !.it = r.it + 1, !.vm = e.vm.moid]
                  ELSE [Touch(r) EXCEPT !.it = r.it + 1]]
       ELSE /\ VMtoDC' = VMtoDC
            /\ call' = [call EXCEPT ![p] =
                  IF r.op = "_list"
                  THEN Finish(Touch(r))
                  ELSE IF r.vm # None
                  THEN [Touch(r) EXCEPT !.steps.lookup = "found",
                                        !.pc = Dispatch(r.op)]
                  ELSE Raise([Touch(r) EXCEPT !.steps.lookup = "not found"],
                             "Machine not found")]
    /\ UNCHANGED <<hostVars, vm_state, probe>>

\* one more machine out of the generator, or its exhaustion: _list collects
\* every name, _get_virtual_machine_by_label stops at the first match
TraverseNext(p) ==
    LET r == call[p]
        all == GetVirtualMachines(RootFolder)
    IN
    /\ r.pc = "traverse_next"
    /\ IF r.it < Len(all)
       THEN LET e == all[r.it + 1] IN
            /\ VMtoDC' = DictPut(VMtoDC, e.vm.name, e.dcpath)
            /\ call' = [call EXCEPT ![p] =
                  IF r.op = "_list"
                  THEN [Touch(r) EXCEPT !.it = r.it + 1,
                                        !.vmlist = Append(r.vmlist, e.vm.name)]
                  ELSE IF e.vm.name = r.label
                  THEN [Touch(r) EXCEPT !.it = r.it + 1, !.vm = e.vm.moid,
                                        !.steps.lookup = "found",
                                        !.pc = Dispatch(r.op)]
                  ELSE [Touch(r) EXCEPT !.it = r.it + 1]]
       ELSE /\ VMtoDC' = VMtoDC
            /\ call' = [call EXCEPT ![p] =
                  IF r.op = "_list"
                  THEN Finish(Touch(r))
                  ELSE Raise([Touch(r) EXCEPT !.steps.lookup = "not found"],
                             "Machine not found")]
    /\ UNCHANGED <<hostVars, vm_state, probe>>

\* a _status that reads the power state after the with statement is left
StatusAfterClose(p) ==
    LET r == call[p] IN
    /\ r.pc = "status"
    /\ call' = [call EXCEPT ![p] =
                  [Touch([r EXCEPT !.conn = "closed"]) EXCEPT
                      !.status = powerState[r.vm], !.pc = "done", !.outcome = "ok"]]
    /\ UNCHANGED <<hostVars, VMtoDC, vm_state, probe>>

\* _status: status = vm.runtime.powerState; self.set_status(label, status)
Status(p) ==
    LET r == call[p] IN
    /\ r.pc = "status"
    /\ call' = [call EXCEPT ![p] =
                  Finish([Touch(r) EXCEPT !.status = powerState[r.vm]])]
    /\ UNCHANGED <<hostVars, VMtoDC, vm_state, probe>>

\* a revert that requests the task before it looks at the lookup's result
RevertSnapshotEager(p) ==
    LET r == call[p]
        snapshot == GetSnapshotByName(rootSnapshotList[r.vm], r.name)
    IN
    /\ r.pc = "revert"
    /\ tasks' = Append(tasks, NewTask(r, p, "revert", snapshot))
    /\ call' = [call EXCEPT ![p] =
          IF snapshot # None
          THEN [Request(Touch(r), "revert") EXCEPT !.snapshot = snapshot]
          ELSE Raise([Request(Touch(r), "revert") EXCEPT !.steps.revert = "not found"],
                     "Snapshot not found")]
    /\ UNCHANGED <<rootSnapshotList, currentSnapshot, powerState, layoutEx,
                   VMtoDC, vm_state, probe>>

\* _revert_snapshot up to the wait: look the snapshot up, request the revert
RevertSnapshot(p) ==
    LET r == call[p]
        snapshot == GetSnapshotByName(rootSnapshotList[r.vm], r.name)
    IN
    /\ r.pc = "revert"
    /\ IF snapshot # None
       THEN /\ tasks' = Append(tasks, NewTask(r, p, "revert", snapshot))
            /\ call' = [call EXCEPT ![p] =
                  [Request(Touch(r), "revert") EXCEPT !.snapshot = snapshot]]
       ELSE /\ tasks' = tasks
            /\ call' = [call EXCEPT ![p] =
                  Raise([Touch(r) EXCEPT !.steps.revert = "not found"],
                        "Snapshot not found")]
    /\ UNCHANGED <<rootSnapshotList, currentSnapshot, powerState, layoutEx,
                   VMtoDC, vm_state, probe>>

\* _stop_virtual_machine up to the wait: task = vm.PowerOffVM_Task()
StopVirtualMachine(p) ==
    LET r == call[p] IN
    /\ r.pc = "poweroff"
    /\ tasks' = Append(tasks, NewTask(r, p, "poweroff", None))
    /\ call' = [call EXCEPT ![p] = Request(Touch(r), "poweroff")]
    /\ UNCHANGED <<rootSnapshotList, currentSnapshot, powerState, layoutEx,
                   VMtoDC, vm_state, probe>>

\* _create_snapshot up to the wait: task = vm.CreateSnapshot_Task(name=name, ...)
CreateSnapshot(p) ==
    LET r == call[p] IN
    /\ r.pc = "create"
    /\ tasks' = Append(tasks, NewTask(r, p, "create", None))
    /\ call' = [call EXCEPT ![p] = Request(Touch(r), "create")]
    /\ UNCHANGED <<rootSnapshotList, currentSnapshot, powerState, layoutEx,
                   VMtoDC, vm_state, probe>>

\* _delete_snapshot up to the wait: look the snapshot up, request its removal
DeleteSnapshot(p) ==
    LET r == call[p]
        snapshot == GetSnapshotByName(rootSnapshotList[r.vm], r.name)
    IN
    /\ r.pc = "delete"
    /\ IF snapshot # None
       THEN /\ tasks' = Append(tasks, NewTask(r, p, "delete", snapshot))
            /\ call' = [call EXCEPT ![p] =
                  [Request(Touch(r), "delete") EXCEPT !.snapshot = snapshot]]
       ELSE /\ tasks' = tasks
            /\ call' = [call EXCEPT ![p] =
                  Raise([Touch(r) EXCEPT !.steps.delete = "not found"],
                        "Snapshot not found")]
    /\ UNCHANGED <<rootSnapshotList, currentSnapshot, powerState, layoutEx,
                   VMtoDC, vm_state, probe>>

\* _download_snapshot, lines 290-293: the snapshot is looked up by name
DownloadLookup(p) ==
    LET r == call[p]
        snapshot == GetSnapshotByName(rootSnapshotList[r.vm], r.name)
    IN
    /\ r.pc = "dl_lookup"
    /\ call' = [call EXCEPT ![p] =
          IF snapshot = None
          THEN Raise([Touch(r) EXCEPT !.steps.download = "not found"],
                     "Snapshot not found")
          ELSE [Touch(r) EXCEPT !.snapshot = snapshot, !.pc = "dl_resolve"]]
    /\ UNCHANGED <<hostVars, VMtoDC, vm_state, probe>>

\* a resolution that goes on to the removal when no file is found
DownloadResolveCleansUp(p) ==
    LET r == call[p]
        filespec == ResolveFilespec(layoutEx[r.vm], r.snapshot)
        q == [Touch(r) EXCEPT !.filespec = filespec]
    IN
    /\ r.pc = "dl_resolve"
    /\ call' = [call EXCEPT ![p] =
          IF filespec = <<>>
          THEN [q EXCEPT !.steps.download = "no file", !.pc = "delete"]
          ELSE IF ReMatch(filespec) = <<>>
          THEN Raise([q EXCEPT !.steps.download = "no match"], "AttributeError")
          ELSE [q EXCEPT !.pc = "dl_http",
                         !.dcPath = DictGet(VMtoDC, LabelOf(r.vm), "ha-datacenter")]]
    /\ UNCHANGED <<hostVars, VMtoDC, vm_state, probe>>

\* _download_snapshot, lines 295-329: the file is resolved in vm.layoutEx,
\* its specifier parsed and the request parameters built
DownloadResolve(p) ==
    LET r == call[p]
        filespec == ResolveFilespec(layoutEx[r.vm], r.snapshot)
        q == [Touch(r) EXCEPT !.filespec = filespec]
    IN
    /\ r.pc = "dl_resolve"
    /\ call' = [call EXCEPT ![p] =
          IF filespec = <<>>
          THEN Raise([q EXCEPT !.steps.download = "no file"],
                     "Could not find memory snapshot file")
          ELSE IF ReMatch(filespec) = <<>>
          THEN Raise([q EXCEPT !.steps.download = "no match"], "AttributeError")
          ELSE [q EXCEPT !.pc = "dl_http",
                         !.dcPath = DictGet(VMtoDC, LabelOf(r.vm), "ha-datacenter")]]
    /\ UNCHANGED <<hostVars, VMtoDC, vm_state, probe>>

\* a download whose broken stream is not raised
DownloadHttpSwallow(p) ==
    LET r == call[p] IN
    /\ r.pc = "dl_http"
    /\ \/ call' = [call EXCEPT ![p] =
             Raise([Touch(r) EXCEPT !.steps.download = "failed"],
                   "Error downloading memory dump")]
       \/ \E n \in r.env.bodies :
            \E k \in 0..Len(IterContent(n)) :
              call' = [call EXCEPT ![p] =
                  [Touch(r) EXCEPT !.body = n, !.file = SumTo(IterContent(n), k),
                                   !.steps.download = "ok", !.pc = "delete"]]
    /\ UNCHANGED <<hostVars, VMtoDC, vm_state, probe>>

\* _download_snapshot, lines 331-344: the request fails, or answers with a
\* body of n bytes that is written chunk by chunk until it ends or breaks
DownloadHttp(p) ==
    LET r == call[p] IN
    /\ r.pc = "dl_http"
    /\ \/ call' = [call EXCEPT ![p] =
             Raise([Touch(r) EXCEPT !.steps.download = "failed"],
                   "Error downloading memory dump")]
       \/ \E n \in r.env.bodies :
            \E k \in 0..Len(IterContent(n)) :
              LET q == [Touch(r) EXCEPT !.body = n,
                                        !.file = SumTo(IterContent(n), k)]
              IN  call' = [call EXCEPT ![p] =
                     IF k = Len(IterContent(n))
                     THEN [q EXCEPT !.steps.download = "ok", !.pc = "delete"]
                     ELSE Raise([q EXCEPT !.steps.download = "broken"],
                                "Error downloading memory dump")]
    /\ UNCHANGED <<hostVars, VMtoDC, vm_state, probe>>

(***************************************************************************)
(* _wait_task: the loop reads task.info.state twice per round, once for   *)
(* each comparison, then compares the clock with the limit and sleeps.     *)
(***************************************************************************)
\* a round that compares the clock with the limit before the task's state
WaitCheckErrorDeadlineFirst(p) ==
    LET r == call[p]
        s == tasks[r.task].state
        q == [Touch(r) EXCEPT !.polls = r.polls + 1, !.r1 = s, !.r2 = "",
                             !.seen = r.seen \cup {s}]
    IN
    /\ r.pc = "w_err"
    /\ call' = [call EXCEPT ![p] =
          IF r.elapsed > vm_state THEN AfterWait(q, "Task timed out")
          ELSE IF s = "error" THEN AfterWait(q, "Task error")
          ELSE [q EXCEPT !.pc = "w_succ"]]
    /\ UNCHANGED <<hostVars, VMtoDC, vm_state, probe>>

\* line 361-362: if task.info.state == "error": raise
WaitCheckError(p) ==
    LET r == call[p]
        s == tasks[r.task].state
        q == [Touch(r) EXCEPT !.polls = r.polls + 1, !.r1 = s, !.r2 = "",
                             !.seen = r.seen \cup {s}]
    IN
    /\ r.pc = "w_err"
    /\ call' = [call EXCEPT ![p] =
          IF s = "error" THEN AfterWait(q, "Task error")
          ELSE [q EXCEPT !.pc = "w_succ"]]
    /\ UNCHANGED <<hostVars, VMtoDC, vm_state, probe>>

\* a round that cancels the task when it gives up waiting
WaitCheckSuccessCancels(p) ==
    LET r == call[p]
        s == tasks[r.task].state
        q == [Touch(r) EXCEPT !.r2 = s, !.seen = r.seen \cup {s}]
    IN
    /\ r.pc = "w_succ"
    /\ call' = [call EXCEPT ![p] =
          IF s = "success" THEN AfterWait(q, "success")
          ELSE IF r.elapsed > vm_state THEN AfterWait(q, "Task timed out")
          ELSE [q EXCEPT !.pc = "w_sleep"]]
    /\ tasks' = IF s # "success" /\ r.elapsed > vm_state
                THEN [tasks EXCEPT ![r.task].state = "error"]
                ELSE tasks
    /\ UNCHANGED <<rootSnapshotList, currentSnapshot, powerState, layoutEx,
                   VMtoDC, vm_state, probe>>

\* a round that gives up at the deadline before it looks for success
WaitCheckSuccessDeadlineFirst(p) ==
    LET r == call[p]
        s == tasks[r.task].state
        q == [Touch(r) EXCEPT !.r2 = s, !.seen = r.seen \cup {s}]
    IN
    /\ r.pc = "w_succ"
    /\ call' = [call EXCEPT ![p] =
          IF r.elapsed > vm_state THEN AfterWait(q, "Task timed out")
          ELSE IF s = "success" THEN AfterWait(q, "success")
          ELSE [q EXCEPT !.pc = "w_sleep"]]
    /\ UNCHANGED <<hostVars, VMtoDC, vm_state, probe>>

\* a round whose deadline comparison is >= instead of >
WaitCheckSuccessAtLimit(p) ==
    LET r == call[p]
        s == tasks[r.task].state
        q == [Touch(r) EXCEPT !.r2 = s, !.seen = r.seen \cup {s}]
    IN
    /\ r.pc = "w_succ"
    /\ call' = [call EXCEPT ![p] =
          IF s = "success" THEN AfterWait(q, "success")
          ELSE IF r.elapsed >= vm_state THEN AfterWait(q, "Task timed out")
          ELSE [q EXCEPT !.pc = "w_sleep"]]
    /\ UNCHANGED <<hostVars, VMtoDC, vm_state, probe>>

\* lines 364-368: if task.info.state == "success": break; then the deadline
WaitCheckSuccess(p) ==
    LET r == call[p]
        s == tasks[r.task].state
        q == [Touch(r) EXCEPT !.r2 = s, !.seen = r.seen \cup {s}]
    IN
    /\ r.pc = "w_succ"
    /\ call' = [call EXCEPT ![p] =
          IF s = "success" THEN AfterWait(q, "success")
          ELSE IF r.elapsed > vm_state THEN AfterWait(q, "Task timed out")
          ELSE [q EXCEPT !.pc = "w_sleep"]]
    /\ UNCHANGED <<hostVars, VMtoDC, vm_state, probe>>

\* line 370: time.sleep(1) takes the interval or longer
WaitSleep(p) ==
    LET r == call[p] IN
    /\ r.pc = "w_sleep"
    /\ \E d \in Interval..(Interval + r.env.jitter) :
          call' = [call EXCEPT ![p] =
                     [r EXCEPT !.pc = "w_err", !.elapsed = r.elapsed + d,
                               !.sleeps = r.sleeps + 1]]
    /\ UNCHANGED <<hostVars, VMtoDC, vm_state, probe>>

(***************************************************************************)
(* The host runs the tasks on its own.                                     *)
(***************************************************************************)
\* the reference the host gives the snapshot made by task t
FreshId(t) == Cardinality(VMs) + t

\* a running task ends in success and its effect takes place
HostSucceed(t) ==
    LET k == tasks[t]
        v == k.vm
        root == rootSnapshotList[v]
    IN
    /\ k.state = "running"
    /\ tasks' = [tasks EXCEPT ![t].state = "success"]
    /\ CASE k.kind = "create" ->
              LET id == FreshId(t)
                  node == Node(k.name, id, powerState[v], <<>>)
              IN  /\ rootSnapshotList' = [rootSnapshotList EXCEPT ![v] =
                         IF currentSnapshot[v] = None THEN Append(root, node)
                         ELSE AddChild(root, currentSnapshot[v], node)]
                  /\ currentSnapshot' = [currentSnapshot EXCEPT ![v] = id]
                  /\ \E how \in call[k.by].env.layouts :
                        layoutEx' = [layoutEx EXCEPT ![v] =
                           [snapshot |-> @.snapshot \o LayoutOf(id, how).snapshot,
                            file |-> @.file \o LayoutOf(id, how).file]]
                  /\ UNCHANGED powerState
         [] k.kind = "delete" ->
              LET left == RemoveSubtree(root, k.snapshot)
                  gone == SnapIds(root) \ SnapIds(left)
              IN  /\ k.snapshot \in SnapIds(root)
                  /\ rootSnapshotList' = [rootSnapshotList EXCEPT ![v] = left]
                  /\ currentSnapshot' = [currentSnapshot EXCEPT ![v] =
                         IF @ \in gone THEN ParentOf(root, k.snapshot, None) ELSE @]
                  /\ layoutEx' = [layoutEx EXCEPT ![v] = DropLayout(@, gone)]
                  /\ UNCHANGED powerState
         [] k.kind = "revert" ->
              /\ k.snapshot \in SnapIds(root)
              /\ powerState' = [powerState EXCEPT ![v] = SnapState(root, k.snapshot)]
              /\ currentSnapshot' = [currentSnapshot EXCEPT ![v] = k.snapshot]
              /\ UNCHANGED <<rootSnapshotList, layoutEx>>
         [] OTHER ->
              /\ powerState[v] = RUNNING
              /\ powerState' = [powerState EXCEPT ![v] = POWEROFF]
              /\ UNCHANGED <<rootSnapshotList, currentSnapshot, layoutEx>>
    /\ UNCHANGED <<VMtoDC, vm_state, call, probe>>

\* a running task ends in error and changes nothing else
HostFail(t) ==
    /\ tasks[t].state = "running"
    /\ tasks' = [tasks EXCEPT ![t].state = "error"]
    /\ UNCHANGED <<rootSnapshotList, currentSnapshot, powerState, layoutEx,
                   VMtoDC, vm_state, call, probe>>

Next ==
    \/ \E p \in Procs :
         \/ Begin(p)
         \/ Connect(p)
         \/ TraverseBegin(p)
         \/ TraverseNext(p)
         \/ Status(p)
         \/ RevertSnapshot(p)
         \/ StopVirtualMachine(p)
         \/ CreateSnapshot(p)
         \/ DownloadLookup(p)
         \/ DownloadResolve(p)
         \/ DownloadHttp(p)
         \/ DeleteSnapshot(p)
         \/ WaitCheckError(p)
         \/ WaitCheckSuccess(p)
         \/ WaitSleep(p)
         \/ WithExit(p)
         \/ Return(p)
    \/ \E t \in DOMAIN tasks :
         \/ HostSucceed(t)
         \/ HostFail(t)

Spec == Init /\ [][Next]_vars

\* two callers share the instance: one dumps the memory of vm1 while the
\* other runs one operation of any kind on vm1 or on vm2
InitConc ==
    /\ InitHost
    /\ VMtoDC = {}
    /\ vm_state = 0
    /\ call = [p \in Procs |->
                 IF p = 1 THEN Workload(MaxConcOps, {"dump_memory"}, {"vm1"}, CalmEnv)
                 ELSE Workload(MaxConcOps, Ops, {"vm1", "vm2"}, CalmEnv)]
    /\ probe = <<>>

SpecConc == InitConc /\ [][Next]_vars

\* the caller is inside _wait_task
WaitStep(p) == WaitCheckError(p) \/ WaitCheckSuccess(p) \/ WaitSleep(p)

\* a caller inside _wait_task keeps running: the loop has no blocking call
\* other than its sleep
FairSpec == Spec /\ \A p \in Procs : WF_vars(WaitStep(p))

(***************************************************************************)
(* The properties.                                                         *)
(***************************************************************************)
InWait(p) == call[p].pc \in {"w_err", "w_succ", "w_sleep"}

\* how the latest _wait_task of the operation ended ("" while none has)
WaitResult(r) == IF r.ctx = "" THEN "" ELSE r.steps[r.ctx]

\* C1: an operation opens at most one session, exactly one unless the
\* connection attempt itself fails, and whenever the operation has returned or
\* raised (machine not found, snapshot not found, task error, wait timeout,
\* download failure, normal return) that session is closed.
C1_SessionReleasedOnEveryExit ==
    \A p \in Procs :
        LET r == call[p] IN
        /\ r.opened <= 1
        /\ r.pc = "done" =>
              /\ r.conn # "open"
              /\ r.outcome # "connect failed" => (r.opened = 1 /\ r.conn = "closed")

\* C1 witness: an operation that raised out of a timed-out wait, session closed
C1_Witness ==
    \E p \in Procs :
        /\ call[p].pc = "done"
        /\ call[p].outcome = "CreateSnapshot: Task timed out"
        /\ call[p].opened = 1
        /\ call[p].conn = "closed"

\* C2: whenever a read of the task's state in a round of the wait returned
\* "error", the wait has failed with "Task error" in that round: it neither
\* went on to sleep nor failed with "Task timed out".
C2_ErrorFailsOnThatPoll ==
    \A p \in Procs :
        LET r == call[p] IN
        (r.ctx # "" /\ "error" \in {r.r1, r.r2}) => WaitResult(r) = "Task error"

\* C3: a wait raises "Task timed out" only once the elapsed time exceeds the
\* limit, never sleeps again after a round that found it exceeded, ends with
\* "Task timed out" when every read returned "running", and always ends.
C3_RunningTaskTimesOut ==
    /\ [](\A p \in Procs :
            LET r == call[p] IN
            /\ WaitResult(r) = "Task timed out" => r.elapsed > vm_state
            /\ r.pc = "w_sleep" => r.elapsed <= vm_state
            /\ (WaitResult(r) # "" /\ r.seen \subseteq {"running"})
                  => WaitResult(r) = "Task timed out")
    /\ \A p \in Procs : InWait(p) ~> ~InWait(p)

\* C3 witness: a wait that saw only "running", slept, and timed out
C3_Witness ==
    \E p \in Procs :
        /\ WaitResult(call[p]) = "Task timed out"
        /\ call[p].seen = {"running"}
        /\ call[p].sleeps >= 1
        /\ call[p].elapsed > vm_state

C5_RevertNotFoundNoRequest ==
    \A p \in Procs :
        LET r == call[p] IN
        (r.op = "start" /\ r.steps.revert = "not found") =>
            /\ r.outcome = "Snapshot not found"
            /\ ExcClass(r.outcome) = "CuckooMachineError"
            /\ r.issued = <<>>
            /\ r.polls = 0
            /\ \A t \in DOMAIN tasks : tasks[t].by = p => t <= r.base

\* C5 witness: a start that ended on the missing baseline snapshot
C5_Witness ==
    \E p \in Procs :
        /\ call[p].pc = "done"
        /\ call[p].op = "start"
        /\ call[p].steps.revert = "not found"
        /\ GetSnapshotByName(rootSnapshotList[call[p].vm], call[p].name) = None

\* a dump_memory that is over, after a create and a download that succeeded
DumpPastDownload(r) ==
    /\ r.op = "dump_memory"
    /\ r.pc = "done"
    /\ r.steps.create = "success"
    /\ r.steps.download = "ok"

DumpReturned(r) ==
    /\ DumpPastDownload(r)
    /\ r.outcome = "ok"
    /\ r.filespec = MemFile
    /\ r.body >= 0

\* C7 as claimed: when such a dump_memory returns, the file holds exactly the
\* bytes of the body and no snapshot of the machine carries the transient name.
C7_DumpLeavesNoSnapshot ==
    \A p \in Procs :
        LET r == call[p] IN
        DumpReturned(r) =>
            /\ r.file = r.body
            /\ r.name \notin SnapNames(rootSnapshotList[r.vm])

\* C7 as amended: when such a dump_memory returns, the file holds exactly the
\* bytes of the body, and if its removal task was seen to succeed the snapshot
\* it asked to remove is no longer in the machine's tree.
C7_DumpWritesBodyAndRemoves ==
    \A p \in Procs :
        LET r == call[p] IN
        DumpReturned(r) =>
            /\ r.file = r.body
            /\ r.steps.delete = "success"
                  => r.snapshot \notin SnapIds(rootSnapshotList[r.vm])

\* C7 witness: a body of more than one chunk written, the snapshot removed
C7_Witness ==
    \E p \in Procs :
        /\ DumpReturned(call[p])
        /\ call[p].body = ChunkSize + 1
        /\ call[p].file = ChunkSize + 1
        /\ call[p].steps.delete = "success"
        /\ call[p].name \notin SnapNames(rootSnapshotList[call[p].vm])

C9_HandlesUsedInsideSession ==
    \A p \in Procs :
        LET r == call[p] IN
        /\ ~r.stale
        /\ r.pc \notin {"idle", "connect", "done"} => r.conn = "open"

\* C9 witness: a _status that read the power state and then left the session
C9_Witness ==
    \E p \in Procs :
        /\ call[p].op = "_status"
        /\ call[p].pc = "done"
        /\ call[p].status = POWEROFF
        /\ call[p].conn = "closed"
        /\ ~call[p].stale

\* C12: a dump_memory whose resolved file specifier has no bracketed prefix
\* fails with a machine error (CuckooMachineError), the kind the operation
\* raises for its other failures, and a dump_memory that got as far as the
\* HTTP request parsed a specifier that starts with a bracketed datastore
\* followed by one space.
C12_BadSpecifierIsMachineError ==
    \A p \in Procs :
        LET r == call[p] IN
        /\ (r.op = "dump_memory" /\ r.filespec # <<>> /\ ReMatch(r.filespec) = <<>>
               /\ r.pc \in {"with_exit", "done"})
              => ExcClass(r.outcome) = "CuckooMachineError"
        /\ r.steps.download \in {"ok", "failed", "broken"}
              => (r.filespec[1] = "[" /\ ReMatch(r.filespec) # <<>>)

\* the path the traversal records for the machine with reference id
RecordedPath(id) ==
    LET all == GetVirtualMachines(RootFolder)
    IN  all[CHOOSE i \in DOMAIN all : all[i].vm.moid = id].dcpath

\* C13: while every other caller runs an operation on another machine (or
\* _list), the dcPath a dump_memory puts in its download URL is the path that
\* its own traversal recorded for its machine when it resolved it.
C13_DcPathIsOwn ==
    \A p \in Procs :
        LET r == call[p] IN
        (/\ r.op = "dump_memory"
         /\ r.dcPath # ""
         /\ \A q \in Procs \ {p} : call[q].op # "none" /\ call[q].label # r.label)
            => r.dcPath = RecordedPath(r.vm)

\* the download step of a dump_memory failed
DownloadFailed(r) ==
    /\ r.op = "dump_memory"
    /\ r.steps.download \in {"not found", "no file", "no match", "failed", "broken"}

\* dump_memory runs its steps in order: the download starts only after the
\* create task was seen successful, the removal is requested only after the
\* download succeeded; a failed download goes to the caller as an error and
\* the operation has requested nothing but the create task
DumpStepsInOrder(r) ==
    /\ (r.pc \in {"dl_lookup", "dl_resolve", "dl_http"} \/ r.steps.download # "")
          => (r.steps.create = "success" /\ r.issued[1] = "create")
    /\ (r.pc = "delete" \/ r.steps.delete # "" \/ (r.pc = "w_err" /\ r.ctx = "delete"))
          => r.steps.download = "ok"
    /\ DownloadFailed(r) =>
          /\ r.pc \in {"with_exit", "done"}
          /\ r.outcome \notin {"none", "ok"}
          /\ r.issued = <<"create">>
          /\ r.steps.delete = ""

C15_CriticalFailuresPropagate ==
    \A p \in Procs :
        LET r == call[p] IN
        /\ r.steps.create \in {"Task error", "Task timed out"} =>
              /\ r.op = "dump_memory"
              /\ r.pc \in {"with_exit", "done"}
              /\ r.outcome = "CreateSnapshot: " \o r.steps.create
              /\ ExcClass(r.outcome) = "CuckooMachineError"
              /\ r.log = <<>>
              /\ r.steps.download = "" /\ r.steps.delete = ""
              /\ r.issued = <<"create">>
              /\ r.file = -1
              /\ \A t \in DOMAIN tasks :
                    (t > r.base /\ tasks[t].by = p) => tasks[t].kind = "create"
        /\ r.steps.revert \in {"Task error", "Task timed out"} =>
              /\ r.op = "start"
              /\ r.pc \in {"with_exit", "done"}
              /\ r.outcome = "RevertToSnapshot: " \o r.steps.revert
              /\ ExcClass(r.outcome) = "CuckooMachineError"
              /\ r.log = <<>>

\* C15 witness: a start whose revert task failed on the host, and the error
\* the caller got
C15_Witness ==
    \E p \in Procs :
        /\ call[p].op = "start"
        /\ call[p].pc = "done"
        /\ call[p].steps.revert = "Task error"
        /\ call[p].outcome = "RevertToSnapshot: Task error"
        /\ \E t \in DOMAIN tasks : tasks[t].kind = "revert" /\ tasks[t].state = "error"

\* C16: no step of a wait (a read of the task's state, the deadline check,
\* the sleep, the step that raises "Task timed out" included) changes anything
\* on the host: the tasks, their states and what they act on stay as they
\* are, and no task is requested by the wait.
C16_WaitLeavesTaskAlone ==
    [][(\E p \in Procs : InWait(p) /\ call'[p] # call[p])
          => (tasks' = tasks /\ UNCHANGED hostVars)]_vars

\* C16 witness: the wait for a task timed out while the task was running, and
\* the task went on to success on the host afterwards
C16_Witness ==
    \E p \in Procs :
        /\ WaitResult(call[p]) = "Task timed out"
        /\ call[p].seen = {"running"}
        /\ tasks[call[p].task].state = "success"

\* self.VMtoDC after a traversal that has yielded the first n machines
IndexAfter(n) ==
    LET all == GetVirtualMachines(RootFolder)
    IN  {<<all[i].vm.name, all[i].dcpath>> : i \in
            {i \in 1..n : \A j \in 1..n : all[j].vm.name = all[i].vm.name => j <= i}}

\* C17: the lookup by label gives the first machine, in traversal order, that
\* carries the label and draws nothing more from the traversal (the index
\* holds the machines up to that one only); when no machine carries the label
\* the traversal is run to its end, the lookup gives None, and start, stop,
\* dump_memory and _status each raise "Machine not found" as a machine error
\* having requested and polled no task.
C17_LookupFirstMatchOrNotFound ==
    \A p \in Procs :
        LET r == call[p]
            all == GetVirtualMachines(RootFolder)
            M == {i \in DOMAIN all : all[i].vm.name = r.label}
        IN
        r.op \in {"start", "stop", "dump_memory", "_status"} =>
            /\ r.steps.lookup = "found" =>
                  /\ M # {}
                  /\ r.vm = all[Min(M)].vm.moid
                  /\ r.it = Min(M)
                  /\ VMtoDC = IndexAfter(Min(M))
            /\ r.steps.lookup = "not found" =>
                  /\ M = {}
                  /\ r.it = Len(all)
                  /\ r.vm = None
                  /\ r.pc \in {"with_exit", "done"}
                  /\ r.outcome = "Machine not found"
                  /\ ExcClass(r.outcome) = "CuckooMachineError"
                  /\ r.issued = <<>>
                  /\ r.polls = 0
                  /\ \A t \in DOMAIN tasks : tasks[t].by = p => t <= r.base
            /\ (M = {} /\ r.pc \in {"with_exit", "done"} /\ r.opened = 1)
                  => r.steps.lookup = "not found"
            /\ (M # {} /\ r.pc \in {"with_exit", "done"} /\ r.opened = 1)
                  => r.steps.lookup = "found"

\* C17 witness: a _status by a label that two machines carry has read the
\* state of the first of them, the traversal stopped before the second
C17_Witness ==
    \E p \in Procs :
        LET all == GetVirtualMachines(RootFolder) IN
        /\ call[p].op = "_status"
        /\ call[p].pc = "done"
        /\ call[p].vm = all[1].vm.moid
        /\ call[p].it = 1
        /\ Cardinality({i \in DOMAIN all : all[i].vm.name = call[p].label}) = 2
        /\ VMtoDC = {<<"vm1", "dc1">>}

\* C19: a wait that has ended has read the task's state at least once, with
\* a limit of 0 seconds too; a round whose read returns "success" ends the
\* wait normally even when the elapsed time is over the limit, never with
\* "Task timed out"; and a wait ends normally only after a read of its last
\* round returned "success".
C19_TerminalStateBeforeDeadline ==
    \A p \in Procs :
        LET r == call[p] IN
        r.ctx # "" =>
            /\ WaitResult(r) # "" => r.polls >= 1
            /\ r.pc \in {"w_succ", "w_sleep"} => r.polls >= 1
            /\ r.r2 = "success" => WaitResult(r) = "success"
            /\ (r.r1 = "success" /\ r.pc # "w_succ") => WaitResult(r) = "success"
            /\ WaitResult(r) = "Task timed out" => "success" \notin r.seen
            /\ WaitResult(r) = "success" => (r.r2 = "success" /\ "success" \in r.seen)

\* C19 witness: with a limit of 0 seconds the task was running in the first
\* round, the sleep took the clock over the limit, the second round read
\* "success" and the wait returned normally
C19_Witness ==
    \E p \in Procs :
        /\ vm_state = 0
        /\ WaitResult(call[p]) = "success"
        /\ call[p].elapsed > vm_state
        /\ call[p].polls = 2
        /\ call[p].seen = {"running", "success"}

\* C20: while two callers each run a dump_memory on the same label under
\* different transient names, the snapshot a dump_memory has created stays in
\* the machine's tree until that dump_memory requests its removal itself:
\* neither its download lookup nor its delete lookup finds it gone.
C20_OwnSnapshotRemovedOnlyByOwnDelete ==
    \A p \in Procs :
        LET r == call[p] IN
        (/\ r.op = "dump_memory"
         /\ r.steps.create = "success"
         /\ \A q \in Procs \ {p} :
               /\ call[q].op = "dump_memory"
               /\ call[q].label = r.label
               /\ call[q].name # r.name)
            => /\ r.steps.download # "not found"
               /\ r.steps.delete # "not found"
               /\ r.issued = <<"create">> => r.name \in SnapNames(rootSnapshotList[r.vm])

(***************************************************************************)
(* The snapshot lookup on its own: _get_snapshot_by_name and               *)
(* _get_snapshot_power_state are called once on a forest drawn from all    *)
(* forests of up to MaxNodes nodes.  A node's reference spells its place:  *)
(* the reference of the i-th child of a node is the node's times Radix     *)
(* plus i, the roots being the children of 0.                              *)
(***************************************************************************)
Radix == MaxNodes + 1
FindNames == {"a", "b"}

RECURSIVE ForestsOf(_, _, _)
RECURSIVE TreesOf(_, _)
\* the trees of exactly k nodes whose root has reference id
TreesOf(k, id) ==
    {Node(nm, id, st, kids) :
        nm \in FindNames, st \in {RUNNING, POWEROFF}, kids \in ForestsOf(k - 1, id, 1)}

\* the forests of exactly n nodes whose roots are the children i, i+1, .. of up
ForestsOf(n, up, i) ==
    IF n = 0 THEN {<<>>}
    ELSE UNION {{<<t>> \o rest : t \in TreesOf(k, up * Radix + i),
                                 rest \in ForestsOf(n - k, up, i + 1)} :
                   k \in 1..n}

AllForests == UNION {ForestsOf(n, 0, 1) : n \in 0..MaxNodes}

InitFind ==
    /\ rootSnapshotList = [v \in VMs |-> <<>>]
    /\ currentSnapshot = [v \in VMs |-> None]
    /\ layoutEx = [v \in VMs |-> LayoutOf(v, "none")]
    /\ powerState = [v \in VMs |-> RUNNING]
    /\ tasks = <<>>
    /\ VMtoDC = {}
    /\ vm_state = 0
    /\ call = [p \in Procs |-> Idle(0)]
    /\ probe \in {[pc |-> "call", root |-> f, name |-> n, snapshot |-> None, state |-> None] :
                     f \in AllForests, n \in FindNames}

\* snapshot = self._get_snapshot_by_name(vm, name) and
\* state = self._get_snapshot_power_state(vm, name) on the same forest
FindCall ==
    /\ probe.pc = "call"
    /\ probe' = [probe EXCEPT !.pc = "returned",
                     !.snapshot = GetSnapshotByName(probe.root, probe.name),
                     !.state = GetSnapshotPowerState(probe.root, probe.name)]
    /\ UNCHANGED <<hostVars, VMtoDC, vm_state, call>>

NextFind == FindCall

SpecFind == InitFind /\ [][NextFind]_vars

RECURSIVE NodeSet(_)
\* the nodes of a forest, as a set
NodeSet(root) ==
    UNION {{root[i]} \cup NodeSet(root[i].childSnapshotList) : i \in DOMAIN root}

RECURSIVE PlaceOf(_)
\* the child indices from a root down to the node with reference id
PlaceOf(id) == IF id = 0 THEN <<>> ELSE Append(PlaceOf(id \div Radix), id % Radix)

\* the documented emission order on places: every descendant before its
\* ancestor, otherwise the branch with the smaller index first
EmittedBefore(a, b) ==
    LET pa == PlaceOf(a)
        pb == PlaceOf(b)
        differ == {i \in 1..Len(pa) : i <= Len(pb) /\ pa[i] # pb[i]}
    IN  IF differ = {}
        THEN Len(pa) > Len(pb)
        ELSE pa[Min(differ)] < pb[Min(differ)]

\* C10: the lookup returns None exactly when no node of the forest carries
\* the name (the empty forest included); otherwise it returns the matching
\* node that the documented order emits before every other matching node,
\* so a matching descendant wins over a matching ancestor and an earlier
\* root's subtree over a later root.
C10_FindByNameFirstInPostOrder ==
    probe.pc = "returned" =>
        LET M == {n \in NodeSet(probe.root) : n.name = probe.name}
        IN  IF M = {}
            THEN probe.snapshot = None /\ probe.state = None
            ELSE \E n \in M :
                    /\ probe.snapshot = n.snapshot
                    /\ probe.state = n.state
                    /\ \A m \in M \ {n} : EmittedBefore(n.snapshot, m.snapshot)

\* C10 witness: the name is carried by a root, by its child and by a later
\* root, and the child is returned
C10_Witness ==
    /\ probe.pc = "returned"
    /\ Len(probe.root) = 2
    /\ Len(probe.root[1].childSnapshotList) = 1
    /\ probe.root[1].name = probe.name
    /\ probe.root[2].name = probe.name
    /\ probe.root[1].childSnapshotList[1].name = probe.name
    /\ probe.snapshot = probe.root[1].childSnapshotList[1].snapshot

(***************************************************************************)
(* The inventory traversal on its own: the generator _get_virtual_machines *)
(* is run to exhaustion, as _list runs it, on an inventory drawn from all  *)
(* hierarchies of up to MaxEntities nodes: folders above datacenters,      *)
(* folders below them, machines as leaves.  A machine's reference spells   *)
(* its place: the i-th child of the node at place-number up has            *)
(* place-number up * WalkRadix + i, the root folder being 0.               *)
(***************************************************************************)
WalkRadix == MaxEntities + 1
DCFolderNames == {"f", "g"}
DCNames == {"d"}
VMFolderNames == {"x"}
WalkLabels == {"vm1", "vm2"}

RECURSIVE DCForests(_, _, _)
RECURSIVE VMForests(_, _, _)
\* the subtrees of exactly k nodes below a datacenter, rooted at place id
VMTrees(k, id) ==
    {Folder(nm, kids) : nm \in VMFolderNames, kids \in VMForests(k - 1, id, 1)}
        \cup (IF k = 1 THEN {Machine(l, id) : l \in WalkLabels} ELSE {})

\* the subtrees of exactly k nodes above the machines, rooted at place id
DCTrees(k, id) ==
    {Folder(nm, kids) : nm \in DCFolderNames, kids \in DCForests(k - 1, id, 1)}
        \cup {Datacenter(nm, vms) : nm \in DCNames, vms \in VMForests(k - 1, id, 1)}

\* the sequences of subtrees of n nodes in all that are the children i, i+1, ..
\* of the node at place up
VMForests(n, up, i) ==
    IF n = 0 THEN {<<>>}
    ELSE UNION {{<<t>> \o rest : t \in VMTrees(k, up * WalkRadix + i),
                                 rest \in VMForests(n - k, up, i + 1)} :
                   k \in 1..n}

DCForests(n, up, i) ==
    IF n = 0 THEN {<<>>}
    ELSE UNION {{<<t>> \o rest : t \in DCTrees(k, up * WalkRadix + i),
                                 rest \in DCForests(n - k, up, i + 1)} :
                   k \in 1..n}

AllInventories == UNION {DCForests(n, 0, 1) : n \in 0..MaxEntities}

InitWalk ==
    /\ rootSnapshotList = [v \in VMs |-> <<>>]
    /\ currentSnapshot = [v \in VMs |-> None]
    /\ layoutEx = [v \in VMs |-> LayoutOf(v, "none")]
    /\ powerState = [v \in VMs |-> RUNNING]
    /\ tasks = <<>>
    /\ VMtoDC \in {{}, {<<"vm1", "stale">>}}
    /\ vm_state = 0
    /\ call = [p \in Procs |-> Idle(0)]
    /\ probe \in {[pc |-> "call", root |-> f, it |-> 0, yielded |-> <<>>] :
                     f \in AllInventories}

\* the generator's first next(): self.VMtoDC = {}
WalkBegin ==
    /\ probe.pc = "call"
    /\ VMtoDC' = {}
    /\ probe' = [probe EXCEPT !.pc = "running"]
    /\ UNCHANGED <<hostVars, vm_state, call>>

\* one more next(): the path is stored under the machine's name and the
\* machine yielded, or the generator is exhausted
WalkNext ==
    LET all == GetVirtualMachines(probe.root) IN
    /\ probe.pc = "running"
    /\ IF probe.it < Len(all)
       THEN LET e == all[probe.it + 1] IN
            /\ VMtoDC' = DictPut(VMtoDC, e.vm.name, e.dcpath)
            /\ probe' = [probe EXCEPT !.it = probe.it + 1,
                            !.yielded = Append(probe.yielded,
                                [moid |-> e.vm.moid, name |-> e.vm.name,
                                 dcpath |-> e.dcpath])]
       ELSE /\ VMtoDC' = VMtoDC
            /\ probe' = [probe EXCEPT !.pc = "exhausted"]
    /\ UNCHANGED <<hostVars, vm_state, call>>

NextWalk == WalkBegin \/ WalkNext

SpecWalk == InitWalk /\ [][NextWalk]_vars

\* the children of an inventory node, of whichever kind
Kids(node) == IF node.hasChild THEN node.childEntity ELSE node.vmFolder

RECURSIVE MachineIds(_)
\* the references of the machines of an inventory, as a set
MachineIds(nodes) ==
    UNION {IF nodes[i].moid # 0 THEN {nodes[i].moid} ELSE MachineIds(Kids(nodes[i])) :
              i \in DOMAIN nodes}

RECURSIVE WalkPlace(_)
\* the child indices from the root folder down to the node at place-number id
WalkPlace(id) ==
    IF id = 0 THEN <<>> ELSE Append(WalkPlace(id \div WalkRadix), id % WalkRadix)

RECURSIVE AncestorsAt(_, _)
\* the nodes passed on the way down to place, the node at place excluded
AncestorsAt(nodes, place) ==
    IF Len(place) <= 1 THEN <<>>
    ELSE <<nodes[place[1]]>> \o AncestorsAt(Kids(nodes[place[1]]), Tail(place))

\* the names of the ancestors down to the datacenter, each folder name
\* followed by "/", as one string
DatacenterPathOf(anc) ==
    LET dc == Min({i \in DOMAIN anc : ~anc[i].hasChild})
        F[i \in 0..(dc - 1)] == IF i = 0 THEN "" ELSE F[i - 1] \o anc[i].name \o "/"
    IN  F[dc - 1] \o anc[dc].name

\* place a comes before place b in depth-first order, siblings in host order
WalkBefore(a, b) ==
    LET pa == WalkPlace(a)
        pb == WalkPlace(b)
        differ == {i \in 1..Len(pa) : i <= Len(pb) /\ pa[i] # pb[i]}
    IN  differ # {} /\ pa[Min(differ)] < pb[Min(differ)]

\* C11: a full traversal yields every machine of the hierarchy exactly once,
\* in depth-first order with siblings in host order; the path yielded with a
\* machine (and stored under its name just before the yield) is the names of
\* its ancestor folders above the datacenter, each followed by "/", then the
\* datacenter's name; after the traversal the index holds for every name the
\* path of the machine yielded last under that name, and nothing else.
C11_TraversalYieldsEveryMachineOnce ==
    LET y == probe.yielded IN
    /\ probe.pc \in {"running", "exhausted"} =>
          /\ \A i, j \in DOMAIN y : i < j => WalkBefore(y[i].moid, y[j].moid)
          /\ \A i \in DOMAIN y :
                /\ y[i].moid \in MachineIds(probe.root)
                /\ y[i].dcpath =
                      DatacenterPathOf(AncestorsAt(probe.root, WalkPlace(y[i].moid)))
          /\ VMtoDC = {<<y[i].name, y[i].dcpath>> : i \in
                         {i \in DOMAIN y : \A j \in DOMAIN y : y[j].name = y[i].name => j <= i}}
    /\ probe.pc = "exhausted" =>
          /\ {y[i].moid : i \in DOMAIN y} = MachineIds(probe.root)
          /\ Len(y) = Cardinality(MachineIds(probe.root))

\* C11 witness: a folder with a datacenter whose two machines carry one
\* name: both are yielded with the path "g/d", and the index holds that one
\* name
C11_Witness ==
    /\ probe.pc = "exhausted"
    /\ Len(probe.root) = 1
    /\ probe.root[1].hasChild /\ probe.root[1].name = "g"
    /\ Len(probe.yielded) = 2
    /\ probe.yielded[1].name = probe.yielded[2].name
    /\ probe.yielded[1].dcpath = "g/d"
    /\ probe.yielded[2].dcpath = "g/d"
    /\ VMtoDC = {<<"vm1", "g/d">>}

(***************************************************************************)
(* The download step on its own: a dump_memory whose create task was seen  *)
(* successful enters _download_snapshot on a machine whose layout is drawn *)
(* from all listings of up to MaxFiles files.  The name of a file spells   *)
(* its place in the listing.                                               *)
(***************************************************************************)
FileTypes == {"snapshotMemory", "suspendMemory", "snapshotData", "diskDescriptor"}
FileKeys == {1, 2}
\* the snapshot the dump has made, and another one of the machine
DumpSnap == 7
OtherSnap == 8

\* the specifier of the i-th file of a listing
FileNameAt(i) == <<"[", "d", "s", "]", " ", "f">> \o [j \in 1..i |-> "i"]

RECURSIVE FileLists(_)
\* the listings of exactly n files
FileLists(n) ==
    IF n = 0 THEN {<<>>}
    ELSE {Append(l, [key |-> k, type |-> t, name |-> FileNameAt(n)]) :
             l \in FileLists(n - 1), k \in FileKeys, t \in FileTypes}

\* what the layout may say about the snapshots: nothing, one entry with or
\* without memory, the entry behind another snapshot's, two entries for it
SnapshotEntries ==
    { <<>>,
      <<[key |-> DumpSnap, memoryKey |-> 1, dataKey |-> 2]>>,
      <<[key |-> DumpSnap, memoryKey |-> -1, dataKey |-> 2]>>,
      <<[key |-> OtherSnap, memoryKey |-> 2, dataKey |-> 1],
        [key |-> DumpSnap, memoryKey |-> 1, dataKey |-> 2]>>,
      <<[key |-> DumpSnap, memoryKey |-> 2, dataKey |-> 1],
        [key |-> DumpSnap, memoryKey |-> 1, dataKey |-> 2]>> }

AllLayouts ==
    {[snapshot |-> e, file |-> f] :
        e \in SnapshotEntries, f \in UNION {FileLists(n) : n \in 0..MaxFiles}}

InitResolve ==
    /\ rootSnapshotList = [v \in VMs |->
          IF v = 1 THEN <<Node(TransientNames[1], DumpSnap, RUNNING, <<>>)>> ELSE <<>>]
    /\ currentSnapshot = [v \in VMs |-> IF v = 1 THEN DumpSnap ELSE None]
    /\ \E l \in AllLayouts :
          layoutEx = [v \in VMs |-> IF v = 1 THEN l ELSE LayoutOf(v, "none")]
    /\ powerState = [v \in VMs |-> RUNNING]
    /\ tasks = <<[kind |-> "create", vm |-> 1, snapshot |-> None,
                  name |-> TransientNames[1], state |-> "success", by |-> 1]>>
    /\ VMtoDC = {<<"vm1", "dc1">>}
    /\ vm_state = 0
    /\ call = [p \in Procs |->
          IF p = 1
          THEN [Workload(0, {"dump_memory"}, {"vm1"}, CalmEnv) EXCEPT
                   !.pc = "dl_lookup", !.op = "dump_memory", !.label = "vm1",
                   !.name = TransientNames[1], !.conn = "open", !.opened = 1,
                   !.vm = 1, !.it = 1, !.task = 1, !.ctx = "create",
                   !.r1 = "success", !.r2 = "success", !.seen = {"success"},
                   !.polls = 1, !.steps.lookup = "found",
                   !.steps.create = "success", !.issued = <<"create">>]
          ELSE Idle(0)]
    /\ probe = <<>>

NextResolve ==
    \E p \in Procs :
        \/ DownloadLookup(p)
        \/ DownloadResolve(p)
        \/ DownloadHttp(p)
        \/ WithExit(p)

SpecResolve == InitResolve /\ [][NextResolve]_vars

\* C18: once the resolution is done, the specifier it chose is the name of
\* the first file of the listing whose key is the snapshot's memory key and
\* whose type is snapshotMemory or suspendMemory; if the listing has no such
\* file, the name of the first snapshotData file whose key is the snapshot's
\* data key; if it has neither, the dump raises "Could not find memory
\* snapshot file" as a machine error and no HTTP request was made.  The keys
\* are those of the first layout entry of the snapshot.
C18_MemoryFileThenDataFile ==
    \A p \in Procs :
        LET r == call[p]
            L == layoutEx[1]
            E == {i \in DOMAIN L.snapshot : L.snapshot[i].key = r.snapshot}
            Mem == {i \in DOMAIN L.file :
                      /\ E # {}
                      /\ L.file[i].key = L.snapshot[Min(E)].memoryKey
                      /\ L.file[i].type \in {"snapshotMemory", "suspendMemory"}}
            Data == {i \in DOMAIN L.file :
                      /\ E # {}
                      /\ L.file[i].key = L.snapshot[Min(E)].dataKey
                      /\ L.file[i].type = "snapshotData"}
            requested == r.steps.download \in {"ok", "failed", "broken"}
        IN
        (r.op = "dump_memory" /\ r.snapshot # None
            /\ r.pc \notin {"dl_lookup", "dl_resolve"}) =>
            /\ Mem # {} =>
                  /\ r.filespec = L.file[Min(Mem)].name
                  /\ r.pc = "dl_http" \/ requested
            /\ (Mem = {} /\ Data # {}) =>
                  /\ r.filespec = L.file[Min(Data)].name
                  /\ r.pc = "dl_http" \/ requested
            /\ (Mem = {} /\ Data = {}) =>
                  /\ r.filespec = <<>>
                  /\ r.steps.download = "no file"
                  /\ r.outcome = "Could not find memory snapshot file"
                  /\ ExcClass(r.outcome) = "CuckooMachineError"
                  /\ r.body = -1 /\ r.file = -1 /\ r.dcPath = ""

\* C18 witness: the listing holds a data file of the snapshot, then another
\* snapshot's memory file, then the snapshot's own memory file, which is the
\* one requested
C18_Witness ==
    \E p \in Procs :
        LET L == layoutEx[1] IN
        /\ call[p].steps.download = "ok"
        /\ Len(L.file) = 3
        /\ Len(L.snapshot) = 2
        /\ L.snapshot[1].key = OtherSnap
        /\ L.file[1].type = "snapshotData" /\ L.file[1].key = 2
        /\ L.file[2].type = "suspendMemory" /\ L.file[2].key = 2
        /\ L.file[3].type = "snapshotMemory" /\ L.file[3].key = 1
        /\ call[p].filespec = FileNameAt(3)
====
